---- MODULE Spec2Model ----
(***************************************************************************)
(* Pomodorio backend (src-tauri/src/main.rs): the phase / session-number   *)
(* state machine, the persisted settings and statistics, and the startup   *)
(* statistics-reset check.                                                 *)
(*                                                                         *)
(* Program state                                                           *)
(*   session_number, phase : the two managed Mutex states                  *)
(*   store                 : the plugin's store ".store.dat" that every    *)
(*                           command reaches through with_store            *)
(*   scratch               : the second Store built in setup, the one      *)
(*                           check_stat_reset is applied to                *)
(*   corrupt               : the keys of store whose stored JSON does not  *)
(*                           deserialize into the record the code asks for *)
(*   tasks                 : the switch_phase invocations in progress,     *)
(*                           with their arguments and locals (used by      *)
(*                           SpecConc, where invocations overlap)          *)
(* Observation variables (written by every handler, read by none)          *)
(*   emitted    : events emitted by the last handler, in order             *)
(*   inserts    : keys the last handler inserted into a store, in order    *)
(*   last_cmd   : the last handler and its arguments                       *)
(*   pre_phase, pre_session : phase and counter before the last handler    *)
(*   phase_interval : the long_break_interval stored when phase was last   *)
(*                set (at Init: the stored one)                            *)
(*   pre_fresh  : whether, before the last handler, the stored             *)
(*                long_break_interval was still phase_interval             *)
(*   fwd_calls  : number of switch_phase(false, _) calls made so far when  *)
(*                nothing else has run since Init, -1 otherwise            *)
(*   work_count : in such a forward-only run, the number of Work phases    *)
(*                since the last LongBreak (or since Init)                 *)
(*   raised     : what the last handler raised, in order: "update_stats"   *)
(*                for an Err that update_stats returned, "panic" for an    *)
(*                unwrap() of an Err, which ends the handler               *)
(*   n_recorded : number of update_stats calls that inserted "stats" since *)
(*                the stats record was created                             *)
(*   n_recorded_run : the same, since the process started                  *)
(*   check_ret  : what check_stat_reset returned at this process start     *)
(***************************************************************************)
EXTENDS Integers, Sequences, FiniteSets, TLC

VARIABLES session_number, phase, store, scratch,
          emitted, inserts, last_cmd, pre_phase, pre_session,
          phase_interval, pre_fresh, fwd_calls, work_count,
          corrupt, tasks, raised, n_recorded, n_recorded_run, check_ret

vars == <<session_number, phase, store, scratch,
          emitted, inserts, last_cmd, pre_phase, pre_session,
          phase_interval, pre_fresh, fwd_calls, work_count,
          corrupt, tasks, raised, n_recorded, n_recorded_run, check_ret>>

(***************************************************************************)
(* Bounds of the model                                                     *)
(***************************************************************************)
\* largest session counter a forward switch_phase is explored from
MaxSessionNumber == 10
\* how far below zero backward switch_phase calls are explored
MaxBack == 3
\* largest total.sessions explored (no recording beyond it)
MaxTotalSessions == 4

(***************************************************************************)
(* Types                                                                   *)
(***************************************************************************)
TimePhase == {"Work", "ShortBreak", "LongBreak"}

\* impl Default for TimePhase
DefaultTimePhase == "Work"

\* Stat::default()
DefaultStat == [minutes |-> 0, sessions |-> 0]

\* Stats::default()
DefaultStats == [today |-> DefaultStat, week |-> DefaultStat, total |-> DefaultStat]

\* Settings::default()
DefaultSettings ==
    [work_time |-> 25, short_break_time |-> 5,
     long_break_time |-> 20, long_break_interval |-> 4]

\* Settings records a front-end supplies / a previous run persisted.  The
\* fields are i32 and are not validated; the values explored are positive
\* minutes and intervals.
SettingsSet ==
    [work_time : {25, 50}, short_break_time : {5, 10},
     long_break_time : {20, 30}, long_break_interval : {1, 2, 4}]

BucketKeys == {"today", "week", "total"}

(***************************************************************************)
(* Calendar: chrono's Datelike on a UTC date, as (year, ordinal)           *)
(***************************************************************************)
IsLeap(y) == (y % 4 = 0 /\ y % 100 # 0) \/ y % 400 = 0

DaysIn(y) == IF IsLeap(y) THEN 366 ELSE 365

\* weekday of 1 January of year y, Monday = 1 .. Sunday = 7
Jan1Weekday(y) ==
    LET g == (1 + 5 * ((y - 1) % 4) + 4 * ((y - 1) % 100) + 6 * ((y - 1) % 400)) % 7
    IN  IF g = 0 THEN 7 ELSE g

\* weekday of a date, Monday = 1 .. Sunday = 7
Weekday(d) == ((Jan1Weekday(d.year) - 1 + d.ordinal - 1) % 7) + 1

\* number of ISO weeks of year y
WeeksIn(y) ==
    IF Jan1Weekday(y) = 4 \/ (IsLeap(y) /\ Jan1Weekday(y) = 3) THEN 53 ELSE 52

\* d.iso_week().week()
IsoWeek(d) ==
    LET w == (d.ordinal - Weekday(d) + 10) \div 7
    IN  IF w < 1 THEN WeeksIn(d.year - 1)
        ELSE IF w > WeeksIn(d.year) THEN 1
        ELSE w

\* the UTC dates explored for last_opened and Utc::now()
Dates ==
    {d \in [year : {2024, 2025}, ordinal : {1, 2, 7, 8, 9, 364, 365, 366}] :
        d.ordinal <= DaysIn(d.year)}

\* the date of the process start explored by Spec
StartDate == [year |-> 2024, ordinal |-> 8]

(***************************************************************************)
(* Helpers of main.rs                                                      *)
(***************************************************************************)
Abs(x) == IF x < 0 THEN -x ELSE x

\* Rust's i32 `%`: the remainder of the division truncated towards zero,
\* which has the sign of the dividend
RustRem(a, b) == IF a >= 0 THEN a % Abs(b) ELSE -((-a) % Abs(b))

\* update_session_number with is_previous ignored
update_session_number_always_forward(previous_value, is_previous) ==
    previous_value + 1

\* update_session_number: the new counter value
update_session_number(previous_value, is_previous) ==
    IF ~is_previous THEN previous_value + 1 ELSE previous_value - 1

\* get_remaining without the match on the phase
get_remaining_work_time(p, st) == st.settings.work_time

\* get_remaining: the configured duration of phase p
get_remaining(p, st) ==
    CASE p = "Work"       -> st.settings.work_time
      [] p = "ShortBreak" -> st.settings.short_break_time
      [] p = "LongBreak"  -> st.settings.long_break_time

\* get_new_phase with the modulus 2 * long_break_interval
get_new_phase_even_modulus(st, sn) ==
    LET long_break_interval == st.settings.long_break_interval
    IN  IF RustRem(sn, 2) = 1
        THEN IF RustRem(sn, long_break_interval * 2) = 0
             THEN "LongBreak"
             ELSE "ShortBreak"
        ELSE "Work"

\* get_new_phase
get_new_phase(st, sn) ==
    LET long_break_interval == st.settings.long_break_interval
    IN  IF RustRem(sn, 2) = 1
        THEN IF RustRem(sn, long_break_interval * 2 - 1) = 0
             THEN "LongBreak"
             ELSE "ShortBreak"
        ELSE "Work"

\* update_stats with the key list ["today", "week"]
update_stats_without_total(p, st) ==
    LET elapsed_time == get_remaining(p, st)
        stats == [key \in BucketKeys |->
                    IF key = "total" THEN st.stats[key]
                    ELSE [minutes  |-> st.stats[key].minutes + elapsed_time,
                          sessions |-> st.stats[key].sessions + 1]]
    IN  [st EXCEPT !.stats = stats]

\* update_stats: the store after the single insert of "stats"
update_stats(p, st) ==
    LET elapsed_time == get_remaining(p, st)
        stats == [key \in BucketKeys |->
                    [minutes  |-> st.stats[key].minutes + elapsed_time,
                     sessions |-> st.stats[key].sessions + 1]]
    IN  [st EXCEPT !.stats = stats]

\* emit_status_notification: the body shown for phase p
notification_body(p) ==
    CASE p = "Work"       -> "Time to get back to work!"
      [] p = "ShortBreak" -> "Have a little rest!"
      [] p = "LongBreak"  -> "Take some extra time to relax!"

\* the condition with is_user left out
should_record_ignoring_user(p, is_previous, is_user) ==
    p = "Work" /\ ~is_previous

\* the condition of switch_phase under which update_stats is called
should_record(p, is_previous, is_user) ==
    p = "Work" /\ ~(is_user \/ is_previous)

Event(name, payload) == [event |-> name, payload |-> payload]

Cmd(name, is_previous, is_user, arg) ==
    [name |-> name, is_previous |-> is_previous, is_user |-> is_user, arg |-> arg]

\* check_stat_reset without the early return of the day branch
check_stat_reset_fallthrough(st, today) ==
    LET last_opened == st.last_opened
        day  == today.year # last_opened.year \/ today.ordinal # last_opened.ordinal
        week == today.year # last_opened.year
                \/ IsoWeek(today) # IsoWeek(last_opened)
        s1   == IF day THEN [st EXCEPT !.stats.today = DefaultStat] ELSE st
        s2   == IF week THEN [s1 EXCEPT !.stats.week = DefaultStat] ELSE s1
    IN  [store |-> s2, ret |-> day \/ week,
         ins |-> (IF day THEN <<"stats">> ELSE <<>>)
                 \o (IF week THEN <<"stats">> ELSE <<>>)]

\* check_stat_reset on store st with Utc::now() = today: the store after it,
\* the returned bool and the keys inserted
check_stat_reset(st, today) ==
    LET last_opened == st.last_opened
    IN  IF today.year # last_opened.year \/ today.ordinal # last_opened.ordinal
        THEN [store |-> [st EXCEPT !.stats.today = DefaultStat],
              ret |-> TRUE, ins |-> <<"stats">>]
        ELSE IF today.year # last_opened.year
                \/ IsoWeek(today) # IsoWeek(last_opened)
        THEN [store |-> [st EXCEPT !.stats.week = DefaultStat],
              ret |-> TRUE, ins |-> <<"stats">>]
        ELSE [store |-> st, ret |-> FALSE, ins |-> <<>>]

\* StoreBuilder::new(..).default("settings", ..).default("stats", ..)
\*   .default("last_opened", json!(Utc::now())).build()
\* a store holding only its defaults
StoreBuilder(now) ==
    [settings |-> DefaultSettings, stats |-> DefaultStats, last_opened |-> now]

(***************************************************************************)
(* Errors.  get_from_store returns Err when the stored JSON of a key does  *)
(* not deserialize into the type asked for ("settings" into Settings, a    *)
(* bucket's minutes or sessions into i32).  update_stats passes the Err    *)
(* on with `?`; the handlers unwrap() what get_remaining and get_new_phase *)
(* return, and switch_phase drops what update_stats returns.               *)
(***************************************************************************)
StoreKeys == {"settings", "stats"}

\* get_from_store(store, key) is Ok
readable(key, c) == key \notin c

\* update_stats returns Ok: settings (read by get_remaining) and every
\* bucket's minutes and sessions deserialize
update_stats_ok(c) == readable("settings", c) /\ readable("stats", c)

\* the last handler ended in a panic
Panicked == Len(raised) > 0 /\ raised[Len(raised)] = "panic"

(***************************************************************************)
(* Invocations of switch_phase in progress (SpecConc).                     *)
(***************************************************************************)
Tasks == {1, 2}

IdleTask ==
    [pc |-> "idle", is_previous |-> FALSE, is_user |-> FALSE,
     session_number |-> 0, phase |-> DefaultTimePhase]

NoTasks == [t \in Tasks |-> IdleTask]

(***************************************************************************)
(* Initial state: after main() has run setup and registered the managed    *)
(* states.  The plugin's store holds what ".store.dat" held (the defaults  *)
(* on a first start, otherwise the settings and statistics of earlier      *)
(* runs); the second store of setup holds its defaults and has been        *)
(* through check_stat_reset.                                               *)
(***************************************************************************)
\* statistics a previous run left in ".store.dat"
PersistedStats ==
    [today |-> [minutes |-> 25, sessions |-> 1],
     week  |-> [minutes |-> 75, sessions |-> 2],
     total |-> [minutes |-> 100, sessions |-> 3]]

InitStats == {DefaultStats, PersistedStats}

NoCmd == Cmd("main", FALSE, FALSE, StartDate)

Init ==
    /\ session_number = 0
    /\ phase = DefaultTimePhase
    /\ store \in [settings : SettingsSet, stats : InitStats, last_opened : {StartDate}]
    /\ scratch = check_stat_reset(StoreBuilder(StartDate), StartDate).store
    /\ emitted = <<>>
    /\ inserts = <<>>
    /\ last_cmd = NoCmd
    /\ pre_phase = DefaultTimePhase
    /\ pre_session = 0
    /\ phase_interval = store.settings.long_break_interval
    /\ pre_fresh = TRUE
    /\ fwd_calls = 0
    /\ work_count = 1
    /\ corrupt = {}
    /\ tasks = NoTasks
    /\ raised = <<>>
    /\ n_recorded = store.stats.total.sessions
    /\ n_recorded_run = 0
    /\ check_ret = check_stat_reset(StoreBuilder(StartDate), StartDate).ret

(***************************************************************************)
(* Command handlers, each run to its end without another one interleaved.  *)
(* What a command does after another one panicked inside with_store is up  *)
(* to the runtime (the store collection's mutex is then poisoned) and is   *)
(* not explored.                                                           *)
(***************************************************************************)
\* the events of switch_phase with session-number and switch-phase swapped
switch_phase_events_phase_first(new_sn, new_phase, remaining) ==
    <<Event("switch-phase", new_phase),
      Event("session-number", new_sn),
      Event("notification", notification_body(new_phase)),
      Event("remaining", remaining)>>

\* what switch_phase emits, in order: update_session_number, set_phase,
\* emit_status_notification, emit_all("remaining")
switch_phase_events(new_sn, new_phase, remaining) ==
    <<Event("session-number", new_sn),
      Event("switch-phase", new_phase),
      Event("notification", notification_body(new_phase)),
      Event("remaining", remaining)>>

\* #[tauri::command] switch_phase
switch_phase(is_previous, is_user) ==
    LET sn0        == session_number
        ph0        == phase
        called     == should_record(ph0, is_previous, is_user)
        recorded   == called /\ update_stats_ok(corrupt)
        store1     == IF recorded THEN update_stats(phase, store) ELSE store
        new_sn     == update_session_number(sn0, is_previous)
        panics     == ~readable("settings", corrupt)
        new_phase  == IF panics THEN phase ELSE get_new_phase(store1, new_sn)
        remaining  == get_remaining(new_phase, store1)
        events     == switch_phase_events(new_sn, new_phase, remaining)
        forward    == ~is_previous /\ fwd_calls >= 0
    IN  /\ ~Panicked
        /\ ~is_previous => session_number < MaxSessionNumber
        /\ is_previous => session_number > -MaxBack
        /\ recorded => store.stats.total.sessions < MaxTotalSessions
        /\ session_number' = new_sn
        /\ phase' = new_phase
        /\ store' = store1
        /\ emitted' = IF panics THEN SubSeq(events, 1, 1) ELSE events
        /\ inserts' = IF recorded THEN <<"stats">> ELSE <<>>
        /\ raised' = (IF called /\ ~recorded THEN <<"update_stats">> ELSE <<>>)
                     \o (IF panics THEN <<"panic">> ELSE <<>>)
        /\ last_cmd' = Cmd("switch_phase", is_previous, is_user, "none")
        /\ pre_phase' = phase
        /\ pre_session' = session_number
        /\ phase_interval' = IF panics THEN phase_interval
                             ELSE store1.settings.long_break_interval
        /\ pre_fresh' = (phase_interval = store.settings.long_break_interval)
        /\ fwd_calls' = IF forward THEN fwd_calls + 1 ELSE -1
        /\ work_count' =
              IF forward
              THEN (IF phase = "LongBreak" THEN 0 ELSE work_count)
                   + (IF new_phase = "Work" THEN 1 ELSE 0)
              ELSE 0
        /\ n_recorded' = n_recorded + (IF recorded THEN 1 ELSE 0)
        /\ n_recorded_run' = n_recorded_run + (IF recorded THEN 1 ELSE 0)
        /\ UNCHANGED <<scratch, corrupt, tasks, check_ret>>

\* #[tauri::command] reset_phase
reset_phase ==
    LET panics == ~readable("settings", corrupt)
    IN  /\ ~Panicked
        /\ emitted' = IF panics THEN <<>>
                      ELSE <<Event("remaining", get_remaining(phase, store))>>
        /\ raised' = IF panics THEN <<"panic">> ELSE <<>>
        /\ inserts' = <<>>
        /\ last_cmd' = Cmd("reset_phase", FALSE, FALSE, "none")
        /\ pre_phase' = phase
        /\ pre_session' = session_number
        /\ pre_fresh' = (phase_interval = store.settings.long_break_interval)
        /\ UNCHANGED <<session_number, phase, store, scratch, phase_interval,
                       fwd_calls, work_count, corrupt, tasks,
                       n_recorded, n_recorded_run, check_ret>>

\* update_settings merging the supplied record into the stored one
update_settings_merge(settings) ==
    /\ ~Panicked
    /\ store' = [store EXCEPT !.settings =
                    [settings EXCEPT !.long_break_interval =
                                        store.settings.long_break_interval]]
    /\ corrupt' = corrupt \ {"settings"}
    /\ emitted' = <<>>
    /\ raised' = <<>>
    /\ inserts' = <<"settings">>
    /\ last_cmd' = Cmd("update_settings", FALSE, FALSE, settings)
    /\ pre_phase' = phase
    /\ pre_session' = session_number
    /\ pre_fresh' = (phase_interval = store.settings.long_break_interval)
    /\ fwd_calls' = -1
    /\ work_count' = 0
    /\ UNCHANGED <<session_number, phase, scratch, phase_interval, tasks,
                   n_recorded, n_recorded_run, check_ret>>

\* #[tauri::command] update_settings
update_settings(settings) ==
    /\ ~Panicked
    /\ store' = [store EXCEPT !.settings = settings]
    /\ corrupt' = corrupt \ {"settings"}
    /\ emitted' = <<>>
    /\ raised' = <<>>
    /\ inserts' = <<"settings">>
    /\ last_cmd' = Cmd("update_settings", FALSE, FALSE, settings)
    /\ pre_phase' = phase
    /\ pre_session' = session_number
    /\ pre_fresh' = (phase_interval = store.settings.long_break_interval)
    /\ fwd_calls' = -1
    /\ work_count' = 0
    /\ UNCHANGED <<session_number, phase, scratch, phase_interval, tasks,
                   n_recorded, n_recorded_run, check_ret>>

\* #[tauri::command] restore_state
restore_state ==
    LET panics == ~readable("settings", corrupt)
        events == <<Event("switch-phase", phase),
                    Event("session-number", session_number),
                    Event("remaining", get_remaining(phase, store))>>
    IN  /\ ~Panicked
        /\ emitted' = IF panics THEN SubSeq(events, 1, 2) ELSE events
        /\ raised' = IF panics THEN <<"panic">> ELSE <<>>
        /\ inserts' = <<>>
        /\ last_cmd' = Cmd("restore_state", FALSE, FALSE, "none")
        /\ pre_phase' = phase
        /\ pre_session' = session_number
        /\ pre_fresh' = (phase_interval = store.settings.long_break_interval)
        /\ UNCHANGED <<session_number, phase, store, scratch, phase_interval,
                       fwd_calls, work_count, corrupt, tasks,
                       n_recorded, n_recorded_run, check_ret>>

Next ==
    \/ \E is_previous \in BOOLEAN, is_user \in BOOLEAN :
          switch_phase(is_previous, is_user)
    \/ reset_phase
    \/ \E settings \in SettingsSet : update_settings(settings)
    \/ restore_state

Spec == Init /\ [][Next]_vars

(***************************************************************************)
(* check_stat_reset as a function of the store it is given and of now:     *)
(* the store is drawn from a set of stores, and the check is applied.      *)
(***************************************************************************)
ResetStats ==
    {DefaultStats,
     [today |-> [minutes |-> 30, sessions |-> 2],
      week  |-> [minutes |-> 80, sessions |-> 4],
      total |-> [minutes |-> 200, sessions |-> 9]],
     [today |-> DefaultStat,
      week  |-> [minutes |-> 50, sessions |-> 2],
      total |-> [minutes |-> 50, sessions |-> 2]]}

InitReset ==
    /\ session_number = 0
    /\ phase = DefaultTimePhase
    /\ store = StoreBuilder(StartDate)
    /\ scratch \in [settings : {DefaultSettings}, stats : ResetStats, last_opened : Dates]
    /\ emitted = <<>>
    /\ inserts = <<>>
    /\ last_cmd = NoCmd
    /\ pre_phase = DefaultTimePhase
    /\ pre_session = 0
    /\ phase_interval = store.settings.long_break_interval
    /\ pre_fresh = TRUE
    /\ fwd_calls = 0
    /\ work_count = 1
    /\ corrupt = {}
    /\ tasks = NoTasks
    /\ raised = <<>>
    /\ n_recorded = 0
    /\ n_recorded_run = 0
    /\ check_ret = FALSE

\* one run of check_stat_reset(&mut store) with Utc::now() = today
run_check_stat_reset(today) ==
    LET r == check_stat_reset(scratch, today)
    IN  /\ scratch' = r.store
        /\ inserts' = r.ins
        /\ last_cmd' = Cmd("check_stat_reset", FALSE, FALSE, today)
        /\ check_ret' = r.ret
        /\ UNCHANGED <<session_number, phase, store, emitted, pre_phase,
                       pre_session, phase_interval, pre_fresh,
                       fwd_calls, work_count, corrupt, tasks, raised,
                       n_recorded, n_recorded_run>>

NextReset == \E today \in Dates : run_check_stat_reset(today)

SpecReset == InitReset /\ [][NextReset]_vars

(***************************************************************************)
(* The commands on a store whose file holds values that do not             *)
(* deserialize (a hand-edited or damaged ".store.dat").                    *)
(***************************************************************************)
InitErr ==
    /\ session_number = 0
    /\ phase = DefaultTimePhase
    /\ store \in [settings : {DefaultSettings}, stats : InitStats,
                   last_opened : {StartDate}]
    /\ scratch = check_stat_reset(StoreBuilder(StartDate), StartDate).store
    /\ emitted = <<>>
    /\ inserts = <<>>
    /\ last_cmd = NoCmd
    /\ pre_phase = DefaultTimePhase
    /\ pre_session = 0
    /\ phase_interval = store.settings.long_break_interval
    /\ pre_fresh = TRUE
    /\ fwd_calls = 0
    /\ work_count = 1
    /\ corrupt \in SUBSET StoreKeys
    /\ tasks = NoTasks
    /\ raised = <<>>
    /\ n_recorded = store.stats.total.sessions
    /\ n_recorded_run = 0
    /\ check_ret = check_stat_reset(StoreBuilder(StartDate), StartDate).ret

NextErr ==
    \/ \E is_previous \in BOOLEAN, is_user \in BOOLEAN :
          switch_phase(is_previous, is_user)
    \/ reset_phase
    \/ update_settings(DefaultSettings)
    \/ restore_state

SpecErr == InitErr /\ [][NextErr]_vars

(***************************************************************************)
(* Process starts.  A later start of the program finds in the plugin's     *)
(* store what the previous run left there (the plugin saves its stores     *)
(* when the application exits and loads them in its setup), begins again   *)
(* at counter 0 and phase Work, and runs check_stat_reset on a second      *)
(* store that setup builds from the defaults alone.                        *)
(***************************************************************************)
\* date a is not after date b
DateLE(a, b) == a.year < b.year \/ (a.year = b.year /\ a.ordinal <= b.ordinal)

\* the day after d
NextDay(d) ==
    IF d.ordinal < DaysIn(d.year)
    THEN [year |-> d.year, ordinal |-> d.ordinal + 1]
    ELSE [year |-> d.year + 1, ordinal |-> 1]

\* main, setup: built is Utc::now() when the second store gets its default
\* last_opened, today is Utc::now() inside check_stat_reset (the same day,
\* or the next one when midnight falls between the two)
main(built, today) ==
    LET r == check_stat_reset(StoreBuilder(built), today)
    IN  /\ DateLE(scratch.last_opened, built)
        /\ today \in {built, NextDay(built)}
        /\ session_number' = 0
        /\ phase' = DefaultTimePhase
        /\ scratch' = r.store
        /\ check_ret' = r.ret
        /\ emitted' = <<>>
        /\ inserts' = r.ins
        /\ raised' = <<>>
        /\ last_cmd' = Cmd("main", FALSE, FALSE, today)
        /\ pre_phase' = phase
        /\ pre_session' = session_number
        /\ phase_interval' = store.settings.long_break_interval
        /\ pre_fresh' = (phase_interval = store.settings.long_break_interval)
        /\ fwd_calls' = 0
        /\ work_count' = 1
        /\ tasks' = NoTasks
        /\ n_recorded_run' = 0
        /\ UNCHANGED <<store, corrupt, n_recorded>>

\* the dates of the later starts explored
StartDates == {StartDate, NextDay(StartDate), [year |-> 2024, ordinal |-> 366]}

InitStart ==
    /\ session_number = 0
    /\ phase = DefaultTimePhase
    /\ store \in [settings : {DefaultSettings}, stats : InitStats,
                   last_opened : {StartDate}]
    /\ scratch = check_stat_reset(StoreBuilder(StartDate), StartDate).store
    /\ emitted = <<>>
    /\ inserts = <<>>
    /\ last_cmd = NoCmd
    /\ pre_phase = DefaultTimePhase
    /\ pre_session = 0
    /\ phase_interval = store.settings.long_break_interval
    /\ pre_fresh = TRUE
    /\ fwd_calls = 0
    /\ work_count = 1
    /\ corrupt = {}
    /\ tasks = NoTasks
    /\ raised = <<>>
    /\ n_recorded = store.stats.total.sessions
    /\ n_recorded_run = 0
    /\ check_ret = check_stat_reset(StoreBuilder(StartDate), StartDate).ret

NextStart ==
    \/ \E built \in StartDates, crossing \in BOOLEAN :
          main(built, IF crossing THEN NextDay(built) ELSE built)
    \/ \E is_previous \in BOOLEAN, is_user \in BOOLEAN :
          switch_phase(is_previous, is_user)
    \/ reset_phase
    \/ update_settings(DefaultSettings)
    \/ restore_state

SpecStart == InitStart /\ [][NextStart]_vars

(***************************************************************************)
(* Overlapping switch_phase invocations.  An invocation reads the counter  *)
(* (line 207) and the phase (line 208) into locals, then runs its closure  *)
(* inside with_store, which holds the store collection's lock: closures    *)
(* of different invocations exclude each other, the reads at lines 207     *)
(* and 208 of another invocation do not wait for that lock.  Inside the    *)
(* closure the counter is written at line 215 and the phase at line 218,   *)
(* each under its own Mutex, so another invocation's reads may fall        *)
(* before, between or after the two writes.  In this specification the     *)
(* observation variables describe the last step, not the last handler.     *)
(***************************************************************************)
\* largest |session counter| a new invocation is started from
MaxConcSession == 3

\* the counter value switch_phase hands to update_session_number at line
\* 215, if the closure read the managed counter again
switch_phase_counter_fresh(local_session_number, current_session_number) ==
    current_session_number

\* the counter value switch_phase hands to update_session_number at line
\* 215: the local bound at line 207
switch_phase_counter(local_session_number, current_session_number) ==
    local_session_number

InFlight == {t \in Tasks : tasks[t].pc \notin {"idle", "done"}}

\* the observation variables of a step of an overlapping invocation
conc_observe(t, events, ins) ==
    /\ emitted' = events
    /\ inserts' = ins
    /\ raised' = <<>>
    /\ last_cmd' = Cmd("switch_phase", tasks[t].is_previous, tasks[t].is_user, t)
    /\ pre_phase' = phase
    /\ pre_session' = session_number
    /\ pre_fresh' = (phase_interval = store.settings.long_break_interval)
    /\ fwd_calls' = -1
    /\ work_count' = 0
    /\ UNCHANGED <<scratch, corrupt, check_ret, n_recorded_run>>

\* invocation t starts and binds session_number (line 207)
switch_phase_read_session_number(t, is_previous, is_user) ==
    /\ ~Panicked
    /\ tasks[t].pc \in {"idle", "done"}
    /\ ~is_previous => session_number < MaxConcSession
    /\ is_previous => session_number > -MaxConcSession
    /\ store.stats.total.sessions + Cardinality(InFlight) < MaxTotalSessions
    /\ tasks' = [tasks EXCEPT ![t] =
                    [pc |-> "read_phase", is_previous |-> is_previous,
                     is_user |-> is_user, session_number |-> session_number,
                     phase |-> DefaultTimePhase]]
    /\ emitted' = <<>>
    /\ inserts' = <<>>
    /\ raised' = <<>>
    /\ last_cmd' = Cmd("switch_phase", is_previous, is_user, t)
    /\ pre_phase' = phase
    /\ pre_session' = session_number
    /\ pre_fresh' = (phase_interval = store.settings.long_break_interval)
    /\ fwd_calls' = -1
    /\ work_count' = 0
    /\ UNCHANGED <<session_number, phase, store, scratch, corrupt, check_ret,
                   phase_interval, n_recorded, n_recorded_run>>

\* invocation t binds phase (line 208)
switch_phase_read_phase(t) ==
    /\ ~Panicked
    /\ tasks[t].pc = "read_phase"
    /\ tasks' = [tasks EXCEPT ![t].pc = "with_store", ![t].phase = phase]
    /\ conc_observe(t, <<>>, <<>>)
    /\ UNCHANGED <<session_number, phase, store, phase_interval, n_recorded>>

\* invocation t enters with_store and runs lines 211-215: update_stats,
\* which reads the managed phase through get_remaining, and
\* update_session_number
switch_phase_update(t) ==
    LET my       == tasks[t]
        recorded == should_record(my.phase, my.is_previous, my.is_user)
        store1   == IF recorded THEN update_stats(phase, store) ELSE store
        new_sn   == update_session_number(
                        switch_phase_counter(my.session_number, session_number),
                        my.is_previous)
    IN  /\ ~Panicked
        /\ my.pc = "with_store"
        /\ \A u \in Tasks : tasks[u].pc # "in_store"
        /\ store' = store1
        /\ session_number' = new_sn
        /\ n_recorded' = n_recorded + (IF recorded THEN 1 ELSE 0)
        /\ tasks' = [tasks EXCEPT ![t].pc = "in_store"]
        /\ conc_observe(t, <<Event("session-number", new_sn)>>,
                        IF recorded THEN <<"stats">> ELSE <<>>)
        /\ UNCHANGED <<phase, phase_interval>>

\* invocation t runs lines 217-224 and leaves with_store: get_new_phase of
\* the counter value it wrote, set_phase, the notification, "remaining"
switch_phase_set_phase(t) ==
    LET my        == tasks[t]
        new_sn    == update_session_number(my.session_number, my.is_previous)
        new_phase == get_new_phase(store, new_sn)
        events    == switch_phase_events(new_sn, new_phase,
                                         get_remaining(new_phase, store))
    IN  /\ ~Panicked
        /\ my.pc = "in_store"
        /\ phase' = new_phase
        /\ phase_interval' = store.settings.long_break_interval
        /\ tasks' = [tasks EXCEPT ![t].pc = "done"]
        /\ conc_observe(t, SubSeq(events, 2, 4), <<>>)
        /\ UNCHANGED <<session_number, store, n_recorded>>

InitConc ==
    /\ Init
    /\ store.settings = DefaultSettings

NextConc ==
    \E t \in Tasks :
        \/ \E is_previous \in BOOLEAN, is_user \in BOOLEAN :
              switch_phase_read_session_number(t, is_previous, is_user)
        \/ switch_phase_read_phase(t)
        \/ switch_phase_update(t)
        \/ switch_phase_set_phase(t)

SpecConc == InitConc /\ [][NextConc]_vars

(***************************************************************************)
(* Properties                                                              *)
(***************************************************************************)
\* the phase the specification assigns to counter n under interval k
\* (n odd / even and n mod (2k - 1) in the mathematical sense)
SpecifiedPhase(n, k) ==
    IF n % 2 = 0 THEN "Work"
    ELSE IF n % (2 * k - 1) = 0 THEN "LongBreak"
    ELSE "ShortBreak"

\* the configured duration of phase p in settings record s
ConfiguredDuration(p, s) ==
    IF p = "Work" THEN s.work_time
    ELSE IF p = "ShortBreak" THEN s.short_break_time
    ELSE s.long_break_time

\* C1: after every switch_phase the phase is Work when the counter is even,
\* LongBreak when it is odd and a multiple of 2 * long_break_interval - 1,
\* ShortBreak when it is odd otherwise -- for every counter, negative ones
\* included.
C1_PhaseOfCounter ==
    last_cmd.name = "switch_phase" =>
        phase = SpecifiedPhase(session_number, store.settings.long_break_interval)

\* C2: from counter 0, phase Work and long_break_interval = 4, the n-th of
\* eight successive forward switch_phase calls leaves counter n and the n-th
\* phase of ShortBreak, Work, ShortBreak, Work, ShortBreak, Work, LongBreak,
\* Work.
C2_Expected ==
    <<"ShortBreak", "Work", "ShortBreak", "Work",
      "ShortBreak", "Work", "LongBreak", "Work">>

C2_ForwardSequence ==
    (fwd_calls \in 1..8 /\ store.settings.long_break_interval = 4) =>
        /\ session_number = fwd_calls
        /\ phase = C2_Expected[fwd_calls]

C2_Witness ==
    /\ fwd_calls = 8
    /\ store.settings.long_break_interval = 4
    /\ last_cmd.name = "switch_phase"
    /\ session_number = 8
    /\ phase = "Work"
    /\ pre_phase = "LongBreak"

\* C3: in a run of forward switch_phase calls with a fixed
\* long_break_interval = k, every LongBreak is preceded by exactly k Work
\* phases since the previous LongBreak (since the start, for the first one).
C3_WorkPhasesPerLongBreak ==
    (fwd_calls >= 0 /\ phase = "LongBreak") =>
        work_count = store.settings.long_break_interval

\* a forward switch_phase has just run and this step is a backward one
ForwardThenBackward ==
    /\ last_cmd.name = "switch_phase" /\ ~last_cmd.is_previous
    /\ last_cmd'.name = "switch_phase" /\ last_cmd'.is_previous

\* C4 (as stated): a forward switch_phase immediately followed by a backward
\* one restores the phase and the counter that held before the forward call.
C4_RevertRestores ==
    [][ForwardThenBackward =>
          /\ session_number' = pre_session
          /\ phase' = pre_phase]_vars

\* C4 (amended): a forward switch_phase immediately followed by a backward
\* one restores the counter, and restores the phase when update_settings had
\* not changed long_break_interval since the phase was last set.
C4_RevertRestoresWhenFresh ==
    [][ForwardThenBackward =>
          /\ session_number' = pre_session
          /\ (pre_fresh => phase' = pre_phase)]_vars

C4_Witness ==
    /\ last_cmd.name = "switch_phase" /\ last_cmd.is_previous
    /\ pre_phase = "Work" /\ pre_session = 8
    /\ session_number = 7 /\ phase = "LongBreak"
    /\ pre_fresh
    /\ emitted[1] = Event("session-number", 7)

\* C5: when switch_phase records a session, each of today, week and total
\* gains the configured duration of the phase that just elapsed in minutes
\* and 1 in sessions, and the handler inserts "stats" exactly once.
C5_RecordAddsToAllBuckets ==
    [][(last_cmd'.name = "switch_phase" /\ inserts' # <<>>) =>
          /\ inserts' = <<"stats">>
          /\ \A key \in BucketKeys :
                /\ store'.stats[key].minutes =
                      store.stats[key].minutes
                      + ConfiguredDuration(phase, store.settings)
                /\ store'.stats[key].sessions = store.stats[key].sessions + 1]_vars

C5_Witness ==
    /\ last_cmd.name = "switch_phase"
    /\ inserts = <<"stats">>
    /\ store.settings.work_time = 25
    /\ store.stats.today = [minutes |-> 50, sessions |-> 2]
    /\ store.stats.week = [minutes |-> 100, sessions |-> 3]
    /\ store.stats.total = [minutes |-> 125, sessions |-> 4]

\* C6: switch_phase changes the stats record exactly when the phase is Work
\* and the call is an automatic forward one (is_previous = false and
\* is_user = false); every other switch_phase leaves stats as it was, so a
\* backward call does not take a recorded session back.
C6_RecordsIffAutomaticForwardFromWork ==
    [][last_cmd'.name = "switch_phase" =>
          /\ (store'.stats # store.stats)
                <=> (phase = "Work" /\ ~last_cmd'.is_previous /\ ~last_cmd'.is_user)
          /\ (inserts' = <<>>) <=> (store'.stats = store.stats)]_vars

C6_Witness ==
    /\ last_cmd.name = "switch_phase" /\ last_cmd.is_previous
    /\ pre_session = 1 /\ session_number = 0
    /\ inserts = <<>>
    /\ store.stats.total = [minutes |-> 25, sessions |-> 1]

\* now and last_opened of the last check differ in year or day of year
DayDiffers(today, last_opened) ==
    today.year # last_opened.year \/ today.ordinal # last_opened.ordinal

\* now and last_opened of the last check differ in year or ISO week
WeekDiffers(today, last_opened) ==
    today.year # last_opened.year \/ IsoWeek(today) # IsoWeek(last_opened)

\* C7: one run of check_stat_reset resets at most one bucket, and when now
\* differs from last_opened in year or day of year it sets today to
\* {minutes: 0, sessions: 0} and leaves week and total as they were, also
\* when the ISO week differs.
C7_DayResetOnly ==
    [][last_cmd'.name = "check_stat_reset" =>
          /\ scratch'.stats \in
                {scratch.stats,
                 [scratch.stats EXCEPT !.today = DefaultStat],
                 [scratch.stats EXCEPT !.week = DefaultStat]}
          /\ DayDiffers(last_cmd'.arg, scratch.last_opened) =>
                scratch'.stats = [scratch.stats EXCEPT !.today = DefaultStat]]_vars

C7_Witness ==
    /\ last_cmd.name = "check_stat_reset"
    /\ DayDiffers(last_cmd.arg, scratch.last_opened)
    /\ IsoWeek(last_cmd.arg) # IsoWeek(scratch.last_opened)
    /\ scratch.stats.today = DefaultStat
    /\ scratch.stats.week = [minutes |-> 80, sessions |-> 4]
    /\ scratch.stats.total = [minutes |-> 200, sessions |-> 9]

\* C8: after a run of check_stat_reset with now in another ISO week or
\* another year than last_opened, the week bucket is
\* {minutes: 0, sessions: 0}.
C8_WeekResetOnWeekChange ==
    (last_cmd.name = "check_stat_reset"
     /\ WeekDiffers(last_cmd.arg, scratch.last_opened)) =>
        scratch.stats.week = DefaultStat

\* C9: update_settings stores the supplied record as the whole settings
\* record and changes neither phase, session counter, stats nor last_opened.
C9_UpdateSettingsReplaces ==
    [][last_cmd'.name = "update_settings" =>
          /\ store'.settings = last_cmd'.arg
          /\ inserts' = <<"settings">>
          /\ store'.stats = store.stats
          /\ store'.last_opened = store.last_opened
          /\ phase' = phase
          /\ session_number' = session_number]_vars

C9_Witness ==
    /\ last_cmd.name = "update_settings"
    /\ store.settings = [work_time |-> 50, short_break_time |-> 10,
                         long_break_time |-> 30, long_break_interval |-> 2]
    /\ session_number = 7 /\ phase = "LongBreak"
    /\ store.stats.total.sessions > 0

\* C10: the session counter is never negative.
C10_CounterNonNegative == session_number >= 0

\* the names of a sequence of events, in order
EventNames(events) == [i \in DOMAIN events |-> events[i].event]

\* C11: reset_phase and restore_state leave phase, session counter, settings
\* and stats as they were; reset_phase emits only remaining with the
\* configured duration of the current phase; restore_state emits the current
\* phase, the current session counter and that remaining value.
C11_ReadOnlyCommands ==
    [][/\ last_cmd'.name \in {"reset_phase", "restore_state"} =>
            /\ phase' = phase
            /\ session_number' = session_number
            /\ store' = store
       /\ last_cmd'.name = "reset_phase" =>
            emitted' = <<Event("remaining",
                               ConfiguredDuration(phase, store.settings))>>
       /\ last_cmd'.name = "restore_state" =>
            emitted' = <<Event("switch-phase", phase),
                         Event("session-number", session_number),
                         Event("remaining",
                               ConfiguredDuration(phase, store.settings))>>]_vars

C11_Witness ==
    /\ last_cmd.name = "restore_state"
    /\ session_number = 7 /\ phase = "LongBreak"
    /\ store.settings.long_break_time = 30
    /\ store.stats.total.sessions = 4
    /\ emitted = <<Event("switch-phase", "LongBreak"),
                   Event("session-number", 7),
                   Event("remaining", 30)>>

\* C12 (as stated): after every switch_phase the events are emitted in the
\* order switch-phase, session-number, remaining.
C12_PhaseThenSession ==
    last_cmd.name = "switch_phase" =>
        EventNames(emitted) =
            <<"switch-phase", "session-number", "notification", "remaining">>

\* C12 (amended): after every switch_phase the events are emitted in the
\* order session-number (the new counter), switch-phase (the new phase),
\* the notification, remaining (the new phase's configured duration).
C12_SessionThenPhase ==
    last_cmd.name = "switch_phase" =>
        /\ EventNames(emitted) =
              <<"session-number", "switch-phase", "notification", "remaining">>
        /\ emitted[1].payload = session_number
        /\ emitted[2].payload = phase
        /\ emitted[3].payload = notification_body(phase)
        /\ emitted[4].payload = ConfiguredDuration(phase, store.settings)

C12_Witness ==
    /\ last_cmd.name = "switch_phase" /\ ~last_cmd.is_previous
    /\ EventNames(emitted) =
          <<"session-number", "switch-phase", "notification", "remaining">>
    /\ emitted[1].payload = 3
    /\ emitted[2].payload = "LongBreak"
    /\ emitted[4].payload = 20

\* the elements of a sequence
Range(seq) == {seq[i] : i \in DOMAIN seq}

\* C13: when update_stats returns an error inside switch_phase, the handler
\* stops: the session counter and the phase are as before the call and no
\* event has been emitted.
C13_StatsErrorAbortsSwitch ==
    (last_cmd.name = "switch_phase" /\ "update_stats" \in Range(raised)) =>
        /\ session_number = pre_session
        /\ phase = pre_phase
        /\ emitted = <<>>

\* C14: after a process start has run the boundary check, the stored
\* last_opened is the now that the check used.
C14_LastOpenedIsNow ==
    last_cmd.name = "main" => store.last_opened = last_cmd.arg

\* C15: when a run of check_stat_reset found both a day rollover and an
\* ISO-week rollover (and reset today), the next run of check_stat_reset on
\* that store (at the same or a later date) resets the week bucket.
C15_WeekResetDeferred ==
    [][(/\ last_cmd.name = "check_stat_reset"
        /\ DayDiffers(last_cmd.arg, scratch.last_opened)
        /\ WeekDiffers(last_cmd.arg, scratch.last_opened)
        /\ last_cmd'.name = "check_stat_reset"
        /\ DateLE(last_cmd.arg, last_cmd'.arg)) =>
          scratch'.stats.week = DefaultStat]_vars

\* C19: total is never reset: no step (command or process start with its
\* boundary check) lowers total.sessions, a process start leaves total as it
\* was, and total.sessions grows exactly by the sessions switch_phase
\* records, so it counts the sessions recorded since the record was created.
C19_TotalCountsRecorded ==
    [][/\ store'.stats.total.sessions >= store.stats.total.sessions
       /\ scratch'.stats.total.sessions >= scratch.stats.total.sessions
       /\ store'.stats.total.sessions - store.stats.total.sessions
             = n_recorded' - n_recorded
       /\ store'.stats.total.sessions = n_recorded'
       /\ last_cmd'.name = "main" => store'.stats.total = store.stats.total]_vars

C19_Witness ==
    /\ last_cmd.name = "switch_phase"
    /\ inserts = <<"stats">>
    /\ scratch.last_opened # StartDate
    /\ check_ret
    /\ n_recorded_run = 1
    /\ n_recorded = 2
    /\ store.stats.total = [minutes |-> 50, sessions |-> 2]

\* C20: when the boundary check of this process start reset a bucket (at a
\* start it can only be today), the first session that switch_phase records
\* afterwards leaves today.sessions = 1 in the store the commands use.
C20_FirstSessionAfterReset ==
    (check_ret /\ n_recorded_run = 1) => store.stats.today.sessions = 1

\* C16: overlapping forward switch_phase invocations lose an update of the
\* counter: whenever the latest invocation of each of the two callers is a
\* finished forward one and both read the same counter value n at line 207,
\* the counter is n + 1, not n + 2, whatever the interleaving was.
C16_LostUpdate ==
    (/\ \A t \in Tasks : tasks[t].pc = "done" /\ ~tasks[t].is_previous
     /\ tasks[1].session_number = tasks[2].session_number)
        => session_number = tasks[1].session_number + 1

\* two automatic forward invocations that both read counter 0 and phase
\* Work have finished, one inside the other's span (the second recorded its
\* session while the phase was already ShortBreak): the counter is 1
C16_Witness ==
    /\ \A t \in Tasks :
          /\ tasks[t].pc = "done"
          /\ ~tasks[t].is_previous /\ ~tasks[t].is_user
          /\ tasks[t].session_number = 0
          /\ tasks[t].phase = "Work"
    /\ session_number = 1
    /\ n_recorded = 2
    /\ store.stats.total = [minutes |-> 30, sessions |-> 2]

\* C17: every time switch_phase records a session, the minutes added to
\* each bucket are the work_time configured at that moment, also when
\* invocations overlap.
C17_RecordsWorkTime ==
    [][inserts' = <<"stats">> =>
          \A key \in BucketKeys :
              store'.stats[key].minutes =
                  store.stats[key].minutes + store.settings.work_time]_vars

\* the phase the code's arithmetic gives for counter n and long break
\* interval k (Rust's % on i32: the remainder has the dividend's sign)
ComputedPhase(n, k) ==
    IF RustRem(n, 2) # 1 THEN "Work"
    ELSE IF RustRem(n, 2 * k - 1) = 0 THEN "LongBreak"
    ELSE "ShortBreak"

\* C18 as stated: in every state between commands the phase is the one
\* computed from the current counter and the currently stored
\* long_break_interval.
C18_PhaseOfCurrentInterval ==
    phase = ComputedPhase(session_number, store.settings.long_break_interval)

\* C18 amended: in every state between commands the phase is the one
\* computed from the current counter and the long_break_interval that was
\* stored when the phase was last set (at process start for the initial
\* phase); update_settings leaves the phase as it is.
C18_PhaseOfIntervalAtLastSwitch ==
    phase = ComputedPhase(session_number, phase_interval)

\* update_settings has raised long_break_interval from 1 to 4 after a switch
\* to counter 1: the phase is still the LongBreak of interval 1
C18_Witness ==
    /\ last_cmd.name = "update_settings"
    /\ session_number = 1
    /\ phase = "LongBreak"
    /\ phase_interval = 1
    /\ store.settings.long_break_interval = 4
====
